---- MODULE Spec2Model ----
(***************************************************************************)
(* The contact-submission pipeline of the portfolio site:                  *)
(*   - the relay endpoint (module initialisation and the async `handler`)  *)
(*   - the ContactSection form controller (`handleSubmit` and the inputs). *)
(* and the state of the Portfolio page: the project filter and the detail  *)
(* modal (`selectedFilter`, `selectedActivity`).                           *)
(* An async function is modelled as one action per segment between its     *)
(* suspension points (awaits).                                             *)
(***************************************************************************)
EXTENDS Integers, Sequences, FiniteSets, TLC

\* ------------------------------------------------------------------ bounds
MaxRequests == 2      \* requests sent to the endpoint by arbitrary HTTP clients
MaxSubmits == 2       \* submit actions of the contact form
MaxEvents == 3        \* clicks and key presses on the Portfolio page

\* ------------------------------------------------------------ value domains
Undefined == "#undefined"            \* the JavaScript value undefined

EnvValues == {Undefined, "", "set"}  \* process.env.X : unset, empty, set

Methods == {"POST", "GET", "PUT", "DELETE", "post", Undefined}

EmailInputs == {"", "a@b.com", "a@b", "bob"}
MessageInputs == {"", "hello"}

TransportErrors == {"EAUTH", "ECONNECTION"}

\* ----------------------------------------------------------- JSON and values
\* A JavaScript object is a sequence of <<key, value>> properties.  Its JSON
\* text is the flat token sequence  k1, v1, k2, v2, ...
RECURSIVE Tokens(_)
Tokens(props) ==
    IF props = <<>> THEN <<>>
    ELSE IF props[1][2] = Undefined
         THEN Tokens(Tail(props))
         ELSE <<props[1][1], props[1][2]>> \o Tokens(Tail(props))

JSONstringify(props) == [kind |-> "json", tokens |-> Tokens(props)]

JSONparse(text) ==
    IF text.kind = "json"
    THEN [t |-> "object",
          props |-> [i \in 1..(Len(text.tokens) \div 2) |->
                        <<text.tokens[2 * i - 1], text.tokens[2 * i]>>]]
    ELSE IF text.kind = "null"
    THEN [t |-> "null", props |-> <<>>]
    ELSE [t |-> "string", props |-> <<>>]

\* value.key : the property, or undefined when the value has none
Prop(value, key) ==
    IF \E i \in 1..Len(value.props) : value.props[i][1] = key
    THEN LET i == CHOOSE j \in 1..Len(value.props) : value.props[j][1] = key
         IN value.props[i][2]
    ELSE Undefined

\* `${v}`
TemplateString(v) == IF v = Undefined THEN "undefined" ELSE v

\* Request bodies an arbitrary HTTP client may send
ForeignBodies ==
    { JSONstringify(<< <<"email", "a@b.com">>, <<"message", "hello">> >>),
      JSONstringify(<< <<"email", "a@b.com">> >>),
      JSONstringify(<< <<"message", "hello">> >>),
      JSONstringify(<< <<"email", "a@b.com">>, <<"message", "hello">>,
                       <<"to", "x@y.org">> >>),
      JSONstringify(<<>>),
      [kind |-> "null", tokens |-> <<>>],
      [kind |-> "none", tokens |-> <<>>] }

\* Bodies tried with the methods other than POST (the handler does not read them)
NonPostBodies ==
    { JSONstringify(<< <<"email", "a@b.com">>, <<"message", "hello">> >>),
      [kind |-> "none", tokens |-> <<>>] }

\* -------------------------------------------------------------------- state
VARIABLES
    env,            \* process.env : EMAIL_USER, EMAIL_PASS, EMAIL_TO
    moduleState,    \* "unloaded" | "loaded" | "threw"
    initError,      \* message of the Error thrown by module initialisation
    transporter,    \* the nodemailer transporter, or NotCreated
    requests,       \* HTTP requests sent to /api/contact, in order of sending
    handlers,       \* one handler invocation record per request
    email,          \* ContactSection state
    message,
    status,
    submissions,    \* one handleSubmit invocation record per submit action
    page,           \* which version of the Portfolio component is mounted
    selectedFilter, \* Portfolio state
    selectedActivity,
    events          \* the clicks and key presses the page has received, in order

vars == <<env, moduleState, initError, transporter, requests, handlers,
          email, message, status, submissions,
          page, selectedFilter, selectedActivity, events>>

serverVars == <<env, moduleState, initError, transporter>>
formVars == <<email, message, status, submissions>>
pageVars == <<page, selectedFilter, selectedActivity, events>>

\* the transporter before  const transporter = nodemailer.createTransport(...)
NotCreated == [created |-> FALSE]

\* null, as the value of selectedActivity
Null == [null |-> TRUE]

EMAIL_USER == env.EMAIL_USER
EMAIL_PASS == env.EMAIL_PASS
EMAIL_TO == env.EMAIL_TO

\* !x for a string-or-undefined x
Falsy(x) == x = Undefined \/ x = ""

Init ==
    /\ env \in [EMAIL_USER : EnvValues, EMAIL_PASS : EnvValues, EMAIL_TO : EnvValues]
    /\ moduleState = "unloaded"
    /\ initError = Undefined
    /\ transporter = NotCreated
    /\ requests = <<>>
    /\ handlers = <<>>
    /\ email = ""
    /\ message = ""
    /\ status = ""
    /\ submissions = <<>>
    /\ page = "current"
    /\ selectedFilter = "All"
    /\ selectedActivity = Null
    /\ events = <<>>

\* ------------------------------------------------------ module initialisation
\* a variant that checks the recipient before the account
MissingVariable_RecipientFirst ==
    IF Falsy(EMAIL_TO) THEN "EMAIL_TO"
    ELSE IF Falsy(EMAIL_USER) THEN "EMAIL_USER"
    ELSE IF Falsy(EMAIL_PASS) THEN "EMAIL_PASS"
    ELSE Undefined

\* a variant that forgets the check of EMAIL_TO
MissingVariable_NoRecipientCheck ==
    IF Falsy(EMAIL_USER) THEN "EMAIL_USER"
    ELSE IF Falsy(EMAIL_PASS) THEN "EMAIL_PASS"
    ELSE Undefined

MissingVariable ==
    IF Falsy(EMAIL_USER) THEN "EMAIL_USER"
    ELSE IF Falsy(EMAIL_PASS) THEN "EMAIL_PASS"
    ELSE IF Falsy(EMAIL_TO) THEN "EMAIL_TO"
    ELSE Undefined

createTransport ==
    [service |-> "gmail", auth |-> [user |-> EMAIL_USER, pass |-> EMAIL_PASS]]

ModuleInit ==
    /\ moduleState = "unloaded"
    /\ IF MissingVariable # Undefined
       THEN /\ moduleState' = "threw"
            /\ initError' = "Missing environment variable: " \o MissingVariable
            /\ transporter' = transporter
       ELSE /\ moduleState' = "loaded"
            /\ initError' = initError
            /\ transporter' = createTransport
    /\ UNCHANGED <<pageVars, env, requests, handlers, formVars>>

\* -------------------------------------------------------------- the handler
\* a variant that compares the method without regard to case
MethodIsPost_IgnoreCase(method) == method \in {"POST", "post"}

MethodIsPost(method) == method = "POST"

MethodNotAllowedResponse ==
    [status |-> 405, body |-> JSONstringify(<< <<"message", "Method not allowed">> >>)]

\* a variant that reports the success with another status code
SuccessResponse_Accepted ==
    [status |-> 202, body |-> JSONstringify(<< <<"message", "Message sent successfully!">> >>)]

SuccessResponse ==
    [status |-> 200, body |-> JSONstringify(<< <<"message", "Message sent successfully!">> >>)]

\* a variant that passes the transport error on to the client
FailureResponse_Leaky(err) ==
    [status |-> 500, body |-> JSONstringify(<< <<"message", "Failed to send message.">>,
                                               <<"error", err>> >>)]

FailureResponse(err) ==
    [status |-> 500, body |-> JSONstringify(<< <<"message", "Failed to send message.">> >>)]

\* console.error('Email failed:', err)
LogEntry(err) == <<"Email failed:", err>>

\* req.body as the framework hands it to the handler
ReqBody(r) == JSONparse(requests[r].body)

\* const { email, message } = req.body  throws a TypeError on null
Destructurable(value) == value.t # "null"

\* a variant that lets the request name the recipient
MailOptions_RecipientFromBody(body) ==
    [from |-> Prop(body, "email"),
     to |-> IF Prop(body, "to") # Undefined THEN Prop(body, "to") ELSE EMAIL_TO,
     subject |-> "Message from " \o TemplateString(Prop(body, "email")),
     text |-> Prop(body, "message")]

MailOptions(body) ==
    [from |-> Prop(body, "email"),
     to |-> EMAIL_TO,
     subject |-> "Message from " \o TemplateString(Prop(body, "email")),
     text |-> Prop(body, "message")]

NewHandler == [pc |-> "pending", mail |-> <<>>, outcome |-> "none",
               res |-> <<>>, log |-> <<>>]

\* a variant without the try/catch: the rejection leaves the handler
Catch_Rethrow(h, err) ==
    [h EXCEPT !.pc = "threw", !.outcome = err]

\* the catch block
Catch(h, err) ==
    [h EXCEPT !.pc = "returned",
              !.outcome = err,
              !.log = Append(@, LogEntry(err)),
              !.res = Append(@, FailureResponse(err))]

\* a variant that stops sending once a send has failed
handler_CircuitBreaker(r, sync) ==
    /\ moduleState = "loaded"
    /\ handlers[r].pc = "pending"
    /\ handlers' =
         IF ~MethodIsPost(requests[r].method)
         THEN [handlers EXCEPT ![r].pc = "returned",
                               ![r].res = Append(@, MethodNotAllowedResponse)]
         ELSE IF \E other \in DOMAIN handlers : handlers[other].outcome \in TransportErrors
         THEN [handlers EXCEPT ![r].pc = "returned",
                               ![r].res = Append(@, FailureResponse("open"))]
         ELSE IF ~Destructurable(ReqBody(r))
         THEN [handlers EXCEPT ![r].pc = "threw"]
         ELSE LET called == [handlers[r] EXCEPT
                                !.mail = Append(@, MailOptions(ReqBody(r)))]
              IN IF sync = "promise"
                 THEN [handlers EXCEPT ![r] = [called EXCEPT !.pc = "awaitSendMail"]]
                 ELSE [handlers EXCEPT ![r] = Catch(called, sync)]
    /\ UNCHANGED <<pageVars, serverVars, requests, formVars>>

\* handler(req, res), from its entry to the await of sendMail or to its return.
\* sync is "promise" when sendMail returns a promise, or the error it throws.
handler(r, sync) ==
    /\ moduleState = "loaded"
    /\ handlers[r].pc = "pending"
    /\ handlers' =
         IF ~MethodIsPost(requests[r].method)
         THEN [handlers EXCEPT ![r].pc = "returned",
                               ![r].res = Append(@, MethodNotAllowedResponse)]
         ELSE IF ~Destructurable(ReqBody(r))
         THEN [handlers EXCEPT ![r].pc = "threw"]
         ELSE LET called == [handlers[r] EXCEPT
                                !.mail = Append(@, MailOptions(ReqBody(r)))]
              IN IF sync = "promise"
                 THEN [handlers EXCEPT ![r] = [called EXCEPT !.pc = "awaitSendMail"]]
                 ELSE [handlers EXCEPT ![r] = Catch(called, sync)]
    /\ UNCHANGED <<pageVars, serverVars, requests, formVars>>

\* the promise of sendMail is fulfilled: the handler resumes after the await
sendMailResolves(r) ==
    /\ handlers[r].pc = "awaitSendMail"
    /\ handlers' = [handlers EXCEPT ![r].pc = "returned",
                                    ![r].outcome = "ok",
                                    ![r].res = Append(@, SuccessResponse)]
    /\ UNCHANGED <<pageVars, serverVars, requests, formVars>>

\* a variant that tries the send a second time before it gives up
sendMailRejects_RetryOnce(r, err) ==
    /\ handlers[r].pc = "awaitSendMail"
    /\ handlers' =
         IF Len(handlers[r].mail) < 2
         THEN [handlers EXCEPT ![r].mail = Append(@, MailOptions(ReqBody(r)))]
         ELSE [handlers EXCEPT ![r] = Catch(handlers[r], err)]
    /\ UNCHANGED <<pageVars, serverVars, requests, formVars>>

\* the promise of sendMail is rejected: the handler resumes in the catch block
sendMailRejects(r, err) ==
    /\ handlers[r].pc = "awaitSendMail"
    /\ handlers' = [handlers EXCEPT ![r] = Catch(handlers[r], err)]
    /\ UNCHANGED <<pageVars, serverVars, requests, formVars>>

\* an arbitrary HTTP client sends a request to the route
ForeignRequest(method, body) ==
    /\ Len(requests) < MaxRequests
    /\ method # "POST" => body \in NonPostBodies
    /\ requests' = Append(requests, [origin |-> 0, url |-> "/api/contact",
                                     method |-> method, body |-> body])
    /\ handlers' = Append(handlers, NewHandler)
    /\ UNCHANGED <<pageVars, serverVars, formVars>>

EndpointNext ==
    \/ ModuleInit
    \/ \E r \in DOMAIN handlers : \E sync \in {"promise"} \cup TransportErrors : handler(r, sync)
    \/ \E r \in DOMAIN handlers : sendMailResolves(r)
    \/ \E r \in DOMAIN handlers : \E err \in TransportErrors : sendMailRejects(r, err)
    \/ \E method \in Methods : \E body \in ForeignBodies : ForeignRequest(method, body)

SpecEndpoint == Init /\ [][EndpointNext]_vars

\* ------------------------------------------------ properties of the endpoint
\* the handler has been entered for request r
Entered(r) == handlers[r].pc # "pending"

\* the body of a response, parsed
Body(response) == JSONparse(response.body)

Only(msg) == [t |-> "object", props |-> << <<"message", msg>> >>]

\* C1: a request whose method is not exactly 'POST' is answered with 405 and
\* {message: 'Method not allowed'}, and sendMail is never called for it.
C1_NonPostRejected ==
    \A r \in DOMAIN handlers :
        requests[r].method # "POST" =>
            /\ handlers[r].mail = <<>>
            /\ handlers[r].outcome = "none"
            /\ Entered(r) =>
                 /\ handlers[r].pc = "returned"
                 /\ Len(handlers[r].res) = 1
                 /\ handlers[r].res[1].status = 405
                 /\ Body(handlers[r].res[1]) = Only("Method not allowed")

C1_Witness ==
    \E r1, r2 \in DOMAIN handlers :
        /\ requests[r1].method = "post"
        /\ requests[r2].method = Undefined
        /\ handlers[r1].pc = "returned"
        /\ handlers[r2].pc = "returned"

\* C2: a POST request whose sendMail call succeeds is answered with 200 and
\* {message: 'Message sent successfully!'}.
C2_SuccessResponse ==
    \A r \in DOMAIN handlers :
        (requests[r].method = "POST" /\ handlers[r].outcome = "ok") =>
            /\ handlers[r].pc = "returned"
            /\ Len(handlers[r].res) = 1
            /\ handlers[r].res[1].status = 200
            /\ Body(handlers[r].res[1]) = Only("Message sent successfully!")

C2_Witness ==
    \E r \in DOMAIN handlers :
        /\ requests[r].method = "POST"
        /\ handlers[r].outcome = "ok"
        /\ Len(handlers[r].mail) = 1

\* C3: a POST request whose sendMail call fails is answered with 500 and
\* {message: 'Failed to send message.'}, the error is logged, and the handler
\* returns normally: an exception leaves the handler only when sendMail was
\* never called.
C3_FailureResponse ==
    \A r \in DOMAIN handlers :
        /\ (requests[r].method = "POST" /\ handlers[r].outcome \in TransportErrors) =>
              /\ handlers[r].pc = "returned"
              /\ handlers[r].log = << <<"Email failed:", handlers[r].outcome>> >>
              /\ Len(handlers[r].res) = 1
              /\ handlers[r].res[1].status = 500
              /\ Prop(Body(handlers[r].res[1]), "message") = "Failed to send message."
        /\ handlers[r].pc = "threw" => handlers[r].mail = <<>>

C3_Witness ==
    \E r \in DOMAIN handlers :
        /\ requests[r].method = "POST"
        /\ handlers[r].outcome = "EAUTH"
        /\ handlers[r].pc = "returned"

\* C4: the response to a failed send does not depend on the transport error:
\* any two failed requests get the same status and body, no part of the body
\* is the error, and the error is in the log.
C4_ErrorNotExposed ==
    \A r1, r2 \in DOMAIN handlers :
        (handlers[r1].outcome \in TransportErrors /\ handlers[r2].outcome \in TransportErrors) =>
            /\ handlers[r1].res = handlers[r2].res
            /\ \A i \in DOMAIN handlers[r1].res :
                 \A j \in DOMAIN handlers[r1].res[i].body.tokens :
                    handlers[r1].res[i].body.tokens[j] \notin TransportErrors
            /\ \E i \in DOMAIN handlers[r1].log :
                 handlers[r1].log[i][2] = handlers[r1].outcome

C4_Witness ==
    \E r1, r2 \in DOMAIN handlers :
        /\ handlers[r1].outcome = "EAUTH"
        /\ handlers[r2].outcome = "ECONNECTION"
        /\ requests[r1].body = requests[r2].body
        /\ handlers[r1].res # <<>>
        /\ handlers[r2].res # <<>>

\* C5: when EMAIL_USER, EMAIL_PASS or EMAIL_TO is absent the initialisation of
\* the module throws and no request is ever handled: whenever the handler has
\* been entered, all three values are present.
C5_FailFast ==
    /\ \A r \in DOMAIN handlers :
          Entered(r) => /\ EMAIL_USER \notin {Undefined, ""}
                        /\ EMAIL_PASS \notin {Undefined, ""}
                        /\ EMAIL_TO \notin {Undefined, ""}
    /\ (moduleState # "unloaded" /\ Undefined \in {EMAIL_USER, EMAIL_PASS, EMAIL_TO}) =>
          /\ moduleState = "threw"
          /\ initError # Undefined

C5_Witness ==
    /\ moduleState = "threw"
    /\ EMAIL_USER = "set"
    /\ EMAIL_PASS = "set"
    /\ EMAIL_TO = Undefined
    /\ \E r \in DOMAIN handlers : requests[r].method = "POST" /\ ~Entered(r)

\* --------------------------------------------------------- the contact form
\* <input type="email" required> and <textarea required>: the browser submits
\* the form only when both are filled in and the email is well formed
ValidEmail(v) == v \in {"a@b.com", "a@b"}

BrowserAllowsSubmit == email # "" /\ ValidEmail(email) /\ message # ""

\* onChange of the email input
onChangeEmail(v) ==
    /\ v # email
    /\ email' = v
    /\ UNCHANGED <<pageVars, serverVars, requests, handlers, message, status, submissions>>

\* onChange of the message textarea
onChangeMessage(v) ==
    /\ v # message
    /\ message' = v
    /\ UNCHANGED <<pageVars, serverVars, requests, handlers, email, status, submissions>>

\* The state changes of handleSubmit are its effects, applied in program order:
\*   <<"preventDefault">>, <<"setStatus", v>>, <<"setEmail", v>>,
\*   <<"setMessage", v>>, <<"fetch", url, method, body>>
RECURSIVE After(_, _, _)
After(current, setter, effects) ==
    IF effects = <<>> THEN current
    ELSE After(IF effects[1][1] = setter THEN effects[1][2] ELSE current,
               setter, Tail(effects))

IsFetch(effect) == effect[1] = "fetch"

\* the requests a sequence of effects sends, on behalf of submission s
Fetched(effects, s) ==
    LET calls == SelectSeq(effects, IsFetch)
    IN [i \in 1..Len(calls) |->
          [origin |-> s, url |-> calls[i][2], method |-> calls[i][3],
           body |-> calls[i][4]]]

\* a variant that sends the values with the default method of fetch
SubmitEffects_DefaultMethod ==
    << <<"preventDefault">>,
       <<"setStatus", "Sending...">>,
       <<"fetch", "/api/contact", "GET",
         JSONstringify(<< <<"email", email>>, <<"message", message>> >>)>> >>

\* a variant that empties the fields as soon as the request is on its way
SubmitEffects_ClearAtSubmit ==
    << <<"preventDefault">>,
       <<"setStatus", "Sending...">>,
       <<"fetch", "/api/contact", "POST",
         JSONstringify(<< <<"email", email>>, <<"message", message>> >>)>>,
       <<"setEmail", "">>,
       <<"setMessage", "">> >>

\* a variant that sends the message only
SubmitEffects_NoEmail ==
    << <<"preventDefault">>,
       <<"setStatus", "Sending...">>,
       <<"fetch", "/api/contact", "POST",
         JSONstringify(<< <<"message", message>> >>)>> >>

\* handleSubmit up to the await of fetch
SubmitEffects ==
    << <<"preventDefault">>,
       <<"setStatus", "Sending...">>,
       <<"fetch", "/api/contact", "POST",
         JSONstringify(<< <<"email", email>>, <<"message", message>> >>)>> >>

\* a variant that reads a field the response does not have
ResumeEffects_WrongField(result) ==
    << <<"setStatus", Prop(result, "error")>>,
       <<"setEmail", "">>,
       <<"setMessage", "">> >>

\* a variant that shows its own text instead of the text of the response
ResumeEffects_OwnText(result) ==
    << <<"setStatus", "Message sent successfully!">>,
       <<"setEmail", "">>,
       <<"setMessage", "">> >>

\* a variant that keeps the fields when the endpoint reports a failure
ResumeEffects_KeepOnFailure(result) ==
    IF Prop(result, "message") = "Message sent successfully!"
    THEN << <<"setStatus", Prop(result, "message")>>,
            <<"setEmail", "">>,
            <<"setMessage", "">> >>
    ELSE << <<"setStatus", Prop(result, "message")>> >>

\* a variant that hides the status line again after a success
ResumeEffects_HideOnSuccess(result) ==
    << <<"setStatus", IF Prop(result, "message") = "Message sent successfully!"
                      THEN "" ELSE Prop(result, "message")>>,
       <<"setEmail", "">>,
       <<"setMessage", "">> >>

\* handleSubmit after  const result = await res.json()
ResumeEffects(result) ==
    << <<"setStatus", Prop(result, "message")>>,
       <<"setEmail", "">>,
       <<"setMessage", "">> >>

StartSubmission(effects) ==
    LET s == Len(submissions) + 1
        sent == Fetched(effects, s)
    IN /\ status' = After(status, "setStatus", effects)
       /\ email' = After(email, "setEmail", effects)
       /\ message' = After(message, "setMessage", effects)
       /\ requests' = requests \o sent
       /\ handlers' = handlers \o [i \in 1..Len(sent) |-> NewHandler]
       /\ submissions' = Append(submissions,
              [pc |-> "awaitFetch", req |-> Len(requests) + 1, effects |-> effects])
       /\ UNCHANGED <<pageVars, serverVars>>

\* a variant that checks the values itself before it sends them
handleSubmit_Validating ==
    /\ email \in {"a@b.com"}
    /\ Len(submissions) < MaxSubmits
    /\ BrowserAllowsSubmit
    /\ StartSubmission(SubmitEffects)

\* a variant that ignores a submit while a submission is in progress
handleSubmit_InFlightGuard ==
    /\ status # "Sending..."
    /\ Len(submissions) < MaxSubmits
    /\ BrowserAllowsSubmit
    /\ StartSubmission(SubmitEffects)

\* the submit event of the form: handleSubmit(e) runs to the await of fetch
handleSubmit ==
    /\ Len(submissions) < MaxSubmits
    /\ BrowserAllowsSubmit
    /\ StartSubmission(SubmitEffects)

\* the response of the endpoint arrives: fetch resolves, handleSubmit resumes
\* and suspends again at res.json()
fetchResolves(s) ==
    /\ s \in DOMAIN submissions
    /\ submissions[s].pc = "awaitFetch"
    /\ submissions[s].req \in DOMAIN handlers
    /\ handlers[submissions[s].req].res # <<>>
    /\ submissions' = [submissions EXCEPT ![s].pc = "awaitJson"]
    /\ UNCHANGED <<pageVars, serverVars, requests, handlers, email, message, status>>

\* a variant with a client-side timeout that reports the failure
fetchRejects_TimeoutStatus(s) ==
    /\ s \in DOMAIN submissions
    /\ submissions[s].pc = "awaitFetch"
    /\ status' = "Request timed out"
    /\ submissions' = [submissions EXCEPT ![s].pc = "threw"]
    /\ UNCHANGED <<pageVars, serverVars, requests, handlers, email, message>>

\* fetch rejects (network failure): handleSubmit ends with an exception
fetchRejects(s) ==
    /\ s \in DOMAIN submissions
    /\ submissions[s].pc = "awaitFetch"
    /\ submissions' = [submissions EXCEPT ![s].pc = "threw"]
    /\ UNCHANGED <<pageVars, serverVars, requests, handlers, email, message, status>>

\* the response handleSubmit(s) received
Response(s) == handlers[submissions[s].req].res[1]

\* a variant that drops the response of a submission that is not the latest
jsonResolves_LatestOnly(s) ==
    /\ s \in DOMAIN submissions
    /\ submissions[s].pc = "awaitJson"
    /\ LET all == ResumeEffects(JSONparse(Response(s).body))
           effects == IF s = Len(submissions) THEN all ELSE Tail(all)
       IN /\ status' = After(status, "setStatus", effects)
          /\ email' = After(email, "setEmail", effects)
          /\ message' = After(message, "setMessage", effects)
          /\ submissions' = [submissions EXCEPT ![s].pc = "done",
                                                ![s].effects = @ \o effects]
    /\ UNCHANGED <<pageVars, serverVars, requests, handlers>>

\* a variant that shows the status text in two steps
jsonResolves_TwoUpdates(s) ==
    /\ s \in DOMAIN submissions
    /\ submissions[s].pc = "awaitJson"
    /\ LET effects == << <<"setStatus", "Done">> >>
                      \o ResumeEffects(JSONparse(Response(s).body))
       IN /\ status' = After(status, "setStatus", effects)
          /\ email' = After(email, "setEmail", effects)
          /\ message' = After(message, "setMessage", effects)
          /\ submissions' = [submissions EXCEPT ![s].pc = "done",
                                                ![s].effects = @ \o effects]
    /\ UNCHANGED <<pageVars, serverVars, requests, handlers>>

\* a variant that shows 'Sending...' for as long as another request is pending
jsonResolves_KeepsSending(s) ==
    /\ s \in DOMAIN submissions
    /\ submissions[s].pc = "awaitJson"
    /\ LET all == ResumeEffects(JSONparse(Response(s).body))
           busy == \E t \in DOMAIN submissions :
                      t # s /\ submissions[t].pc \in {"awaitFetch", "awaitJson"}
           effects == IF busy THEN << <<"setStatus", "Sending...">> >> \o Tail(all)
                      ELSE all
       IN /\ status' = After(status, "setStatus", effects)
          /\ email' = After(email, "setEmail", effects)
          /\ message' = After(message, "setMessage", effects)
          /\ submissions' = [submissions EXCEPT ![s].pc = "done",
                                                ![s].effects = @ \o effects]
    /\ UNCHANGED <<pageVars, serverVars, requests, handlers>>

\* a variant that empties a field only when it still holds the submitted value
jsonResolves_ClearSubmitted(s) ==
    /\ s \in DOMAIN submissions
    /\ submissions[s].pc = "awaitJson"
    /\ LET all == ResumeEffects(JSONparse(Response(s).body))
           sent == JSONparse(requests[submissions[s].req].body)
           keepEmail == email # Prop(sent, "email")
           keepMessage == message # Prop(sent, "message")
           Kept(effect) == ~ \/ (effect[1] = "setEmail" /\ keepEmail)
                             \/ (effect[1] = "setMessage" /\ keepMessage)
           effects == SelectSeq(all, Kept)
       IN /\ status' = After(status, "setStatus", effects)
          /\ email' = After(email, "setEmail", effects)
          /\ message' = After(message, "setMessage", effects)
          /\ submissions' = [submissions EXCEPT ![s].pc = "done",
                                                ![s].effects = @ \o effects]
    /\ UNCHANGED <<pageVars, serverVars, requests, handlers>>

\* res.json() resolves: handleSubmit runs to its end
jsonResolves(s) ==
    /\ s \in DOMAIN submissions
    /\ submissions[s].pc = "awaitJson"
    /\ LET effects == ResumeEffects(JSONparse(Response(s).body))
       IN /\ status' = After(status, "setStatus", effects)
          /\ email' = After(email, "setEmail", effects)
          /\ message' = After(message, "setMessage", effects)
          /\ submissions' = [submissions EXCEPT ![s].pc = "done",
                                                ![s].effects = @ \o effects]
    /\ UNCHANGED <<pageVars, serverVars, requests, handlers>>

\* a variant that catches the exception and resets the form
jsonRejects_Caught(s) ==
    /\ s \in DOMAIN submissions
    /\ submissions[s].pc = "awaitJson"
    /\ status' = "Failed to send message."
    /\ email' = ""
    /\ message' = ""
    /\ submissions' = [submissions EXCEPT ![s].pc = "threw"]
    /\ UNCHANGED <<pageVars, serverVars, requests, handlers>>

\* res.json() rejects (the body cannot be read): handleSubmit ends with an exception
jsonRejects(s) ==
    /\ s \in DOMAIN submissions
    /\ submissions[s].pc = "awaitJson"
    /\ submissions' = [submissions EXCEPT ![s].pc = "threw"]
    /\ UNCHANGED <<pageVars, serverVars, requests, handlers, email, message, status>>

FormNext ==
    \/ \E v \in EmailInputs : onChangeEmail(v)
    \/ \E v \in MessageInputs : onChangeMessage(v)
    \/ handleSubmit
    \/ \E s \in DOMAIN submissions : fetchResolves(s)
    \/ \E s \in DOMAIN submissions : fetchRejects(s)
    \/ \E s \in DOMAIN submissions : jsonResolves(s)
    \/ \E s \in DOMAIN submissions : jsonRejects(s)

\* the form and the endpoint composed: every request comes from the form
Next ==
    \/ ModuleInit
    \/ \E r \in DOMAIN handlers : \E sync \in {"promise"} \cup TransportErrors : handler(r, sync)
    \/ \E r \in DOMAIN handlers : sendMailResolves(r)
    \/ \E r \in DOMAIN handlers : \E err \in TransportErrors : sendMailRejects(r, err)
    \/ FormNext

Spec == Init /\ [][Next]_vars


\* The pipeline when every response is delivered (fetch and res.json() do not
\* reject), with the progress the runtimes provide: the module is loaded, a
\* received request is dispatched to the handler, every sendMail call settles,
\* and a delivered response resumes handleSubmit.
NextLive ==
    \/ ModuleInit
    \/ \E r \in DOMAIN handlers : \E sync \in {"promise"} \cup TransportErrors : handler(r, sync)
    \/ \E r \in DOMAIN handlers : sendMailResolves(r)
    \/ \E r \in DOMAIN handlers : \E err \in TransportErrors : sendMailRejects(r, err)
    \/ \E v \in EmailInputs : onChangeEmail(v)
    \/ \E v \in MessageInputs : onChangeMessage(v)
    \/ handleSubmit
    \/ \E s \in DOMAIN submissions : fetchResolves(s)
    \/ \E s \in DOMAIN submissions : jsonResolves(s)

Dispatch ==
    \E r \in DOMAIN handlers : \E sync \in {"promise"} \cup TransportErrors : handler(r, sync)

Settle ==
    \E r \in DOMAIN handlers :
        sendMailResolves(r) \/ \E err \in TransportErrors : sendMailRejects(r, err)

Deliver ==
    \E s \in DOMAIN submissions : fetchResolves(s) \/ jsonResolves(s)

SpecLive ==
    /\ Init
    /\ [][NextLive]_vars
    /\ WF_vars(ModuleInit)
    /\ WF_vars(Dispatch)
    /\ WF_vars(Settle)
    /\ WF_vars(Deliver)

\* ---------------------------------------------------- properties of the form
\* the step is a submit action
SubmitStep == Len(submissions') = Len(submissions) + 1

\* the step processes the response of submission s
ResolveStep(s) == submissions[s].pc # "done" /\ submissions'[s].pc = "done"

Pending(s) == submissions[s].pc \in {"awaitFetch", "awaitJson"}

\* the positions of the effects of submission s with the given tag
Positions(s, tag) ==
    {i \in DOMAIN submissions[s].effects : submissions[s].effects[i][1] = tag}

\* C6: each submit action issues exactly one POST request to /api/contact whose
\* JSON body is {email, message} with the values of the fields at the submit.
C6_OneRequestPerSubmit ==
    [][SubmitStep =>
         /\ Len(requests') = Len(requests) + 1
         /\ SubSeq(requests', 1, Len(requests)) = requests
         /\ LET sent == requests'[Len(requests')]
            IN /\ sent.method = "POST"
               /\ sent.url = "/api/contact"
               /\ JSONparse(sent.body) =
                     [t |-> "object",
                      props |-> << <<"email", email>>, <<"message", message>> >>]]_vars

C6_Witness ==
    /\ Len(requests) = 1
    /\ Len(submissions) = 1
    /\ requests[1].body = [kind |-> "json",
                           tokens |-> <<"email", "a@b.com", "message", "hello">>]

\* C7: when the response of a submission has been processed, with a success or
\* with a failure, the email and message fields are both empty strings.
C7_FieldsCleared ==
    [][\A s \in DOMAIN submissions :
          ResolveStep(s) => email' = "" /\ message' = ""]_vars

C7_Witness ==
    \E s \in DOMAIN submissions :
        /\ submissions[s].pc = "done"
        /\ Response(s).status = 500
        /\ email = ""
        /\ message = ""

\* C8: every submission sets status to 'Sending...' before it issues its
\* request, and afterwards sets status exactly once, to the text of the
\* response to its own request, when that response is processed.
C8_StatusWrites ==
    \A s \in DOMAIN submissions :
        LET effects == submissions[s].effects
            writes == Positions(s, "setStatus")
            calls == Positions(s, "fetch")
        IN /\ \E i \in writes :
                /\ effects[i] = <<"setStatus", "Sending...">>
                /\ \A j \in calls : i < j
                /\ \A j \in writes : i <= j
           /\ requests[submissions[s].req].origin = s
           /\ Pending(s) => Cardinality(writes) = 1 /\ status # ""
           /\ submissions[s].pc = "done" =>
                /\ Cardinality(writes) = 2
                /\ \E i \in writes :
                     /\ \A j \in calls : j < i
                     /\ effects[i] =
                          <<"setStatus",
                            Prop(Body(handlers[submissions[s].req].res[1]), "message")>>

C8_Witness ==
    \E s1, s2 \in DOMAIN submissions :
        /\ submissions[s1].pc = "done"
        /\ submissions[s2].pc = "done"
        /\ Response(s1).status = 200
        /\ Response(s2).status = 500

\* C9: after a single completed submission the status is the message of the
\* response, which is 'Message sent successfully!' exactly when the transport
\* succeeded and 'Failed to send message.' exactly when it failed.
C9_StatusVerbatim ==
    (Len(submissions) = 1 /\ submissions[1].pc = "done") =>
        LET h == handlers[submissions[1].req]
        IN /\ status = Prop(Body(h.res[1]), "message")
           /\ status = "Message sent successfully!" <=> h.outcome = "ok"
           /\ status = "Failed to send message." <=> h.outcome \in TransportErrors

C9_Witness ==
    /\ Len(submissions) = 1
    /\ submissions[1].pc = "done"
    /\ handlers[submissions[1].req].outcome = "ECONNECTION"
    /\ status = "Failed to send message."

\* C10: a submit while an earlier submission is pending is not suppressed: it
\* issues its own request, and each request that reaches the handler causes
\* its own sendMail call.
C10_NoSuppression ==
    /\ ((\E s \in DOMAIN submissions : Pending(s))
           /\ BrowserAllowsSubmit /\ Len(submissions) < MaxSubmits)
         => ENABLED handleSubmit
    /\ \A s1, s2 \in DOMAIN submissions :
          s1 # s2 => submissions[s1].req # submissions[s2].req
    /\ \A s \in DOMAIN submissions :
          LET r == submissions[s].req
          IN /\ requests[r].origin = s
             /\ Entered(r) => Len(handlers[r].mail) = 1

C10_Witness ==
    \E s1, s2 \in DOMAIN submissions :
        /\ s1 < s2
        /\ submissions[s1].pc = "awaitFetch"
        /\ submissions[s2].pc = "awaitFetch"
        /\ handlers[submissions[s1].req].res = <<>>
        /\ Len(handlers[submissions[s1].req].mail) = 1
        /\ Len(handlers[submissions[s2].req].mail) = 1

\* C11: with overlapping submissions every processed response overwrites
\* status with its own message, and nothing but a submit or a processed
\* response changes status: once all submissions have resolved, status is the
\* message of the response processed last, whichever submission it answers.
C11_LastResponseWins ==
    [][/\ \A s \in DOMAIN submissions :
             ResolveStep(s) => status' = Prop(Body(Response(s)), "message")
       /\ status' # status =>
             \/ SubmitStep
             \/ \E s \in DOMAIN submissions : ResolveStep(s)]_vars

C11_Witness ==
    /\ Len(submissions) = 2
    /\ submissions[1].pc = "done"
    /\ submissions[2].pc = "done"
    /\ Response(1).status = 500
    /\ Response(2).status = 200
    /\ status = "Failed to send message."

\* the handler invocation for request r has ended
Ended(r) == handlers[r].pc \in {"returned", "threw"}

\* C12: every handler invocation goes received -> 405, or received -> send
\* attempt -> 200 or 500: once it has ended it has sent exactly one response,
\* with status 405, 200 or 500, it has called sendMail at most once, and on
\* the POST path it sends no response before the send attempt has settled.
C12_OneResponse ==
    \A r \in DOMAIN handlers :
        /\ Len(handlers[r].res) <= 1
        /\ Len(handlers[r].mail) <= 1
        /\ \A i \in DOMAIN handlers[r].res :
              handlers[r].res[i].status \in {405, 200, 500}
        /\ Ended(r) => Len(handlers[r].res) = 1
        /\ handlers[r].pc = "awaitSendMail" => handlers[r].res = <<>>
        /\ (requests[r].method = "POST" /\ handlers[r].res # <<>>) =>
              /\ Len(handlers[r].mail) = 1
              /\ handlers[r].outcome # "none"

\* the value of a key in the JSON text of request r, or undefined
Sent(r, key) ==
    LET tokens == requests[r].body.tokens
        at == {i \in DOMAIN tokens : i % 2 = 1 /\ tokens[i] = key}
    IN IF at = {} THEN Undefined ELSE tokens[(CHOOSE i \in at : TRUE) + 1]

\* C13: every sendMail call has from = the email of the request body, to = the
\* configured EMAIL_TO, subject = 'Message from ' followed by that email, and
\* text = the message of the request body; the request cannot set the recipient.
C13_MailOptions ==
    \A r \in DOMAIN handlers :
        \A i \in DOMAIN handlers[r].mail :
            LET mail == handlers[r].mail[i]
            IN /\ mail.from = Sent(r, "email")
               /\ mail.text = Sent(r, "message")
               /\ mail.to = env.EMAIL_TO
               /\ mail.to = "set"
               /\ Sent(r, "email") = "a@b.com" => mail.subject = "Message from a@b.com"
               /\ Sent(r, "email") = Undefined => mail.subject = "Message from undefined"
               /\ DOMAIN mail = {"from", "to", "subject", "text"}

C13_Witness ==
    \E r \in DOMAIN handlers :
        /\ Sent(r, "to") = "x@y.org"
        /\ Len(handlers[r].mail) = 1
        /\ handlers[r].mail[1].subject = "Message from a@b.com"
        /\ handlers[r].mail[1].text = "hello"

\* the number of sendMail calls made by the handler invocations hs
RECURSIVE MailCalls(_)
MailCalls(hs) ==
    IF hs = <<>> THEN 0 ELSE Len(hs[1].mail) + MailCalls(Tail(hs))

\* the number of requests of rs, with the invocations hs, the handler has taken up
Handled(rs, hs) ==
    Cardinality({r \in DOMAIN hs : rs[r].method = "POST" /\ hs[r].pc # "pending"})

\* C14: no retries: the form has issued as many POST requests as there were
\* submit actions, the handler has made as many sendMail calls as it has taken
\* up POST requests, and a request is issued only by a submit action.
C14_NoRetries ==
    [][/\ Len(requests') = Len(submissions')
       /\ \A r \in DOMAIN requests' : requests'[r].method = "POST"
       /\ MailCalls(handlers') = Handled(requests', handlers')
       /\ Len(requests') # Len(requests) => SubmitStep]_vars

C14_Witness ==
    /\ Len(submissions) = 2
    /\ Len(requests) = 2
    /\ submissions[1].pc = "done"
    /\ handlers[1].outcome \in TransportErrors
    /\ handlers[2].pc = "returned"
    /\ MailCalls(handlers) = 2

\* the body of request r is missing, is not an object, or lacks email or message
Malformed(r) ==
    \/ requests[r].body.kind # "json"
    \/ Sent(r, "email") = Undefined
    \/ Sent(r, "message") = Undefined

\* C15: a POST request with a missing or malformed body is not rejected: once
\* the handler has taken it up, the values of email and message, undefined
\* where absent, have gone to exactly one sendMail call, and the response is
\* 200 or 500 according to the outcome of the transport alone.
C15_NoBodyValidation ==
    \A r \in DOMAIN handlers :
        (requests[r].method = "POST" /\ Malformed(r) /\ Entered(r)) =>
            /\ handlers[r].pc \in {"awaitSendMail", "returned"}
            /\ Len(handlers[r].mail) = 1
            /\ handlers[r].mail[1].from = Sent(r, "email")
            /\ handlers[r].mail[1].text = Sent(r, "message")
            /\ handlers[r].pc = "returned" =>
                 /\ Len(handlers[r].res) = 1
                 /\ handlers[r].res[1].status = 200 <=> handlers[r].outcome = "ok"
                 /\ handlers[r].res[1].status = 500 <=> handlers[r].outcome \in TransportErrors
                 /\ handlers[r].res[1].status \in {200, 500}

\* the response that the method and the transport outcome of a request call for
Expected(method, outcome) ==
    IF method # "POST" THEN [status |-> 405, message |-> "Method not allowed"]
    ELSE IF outcome = "ok" THEN [status |-> 200, message |-> "Message sent successfully!"]
    ELSE IF outcome \in TransportErrors
         THEN [status |-> 500, message |-> "Failed to send message."]
    ELSE [status |-> 0, message |-> Undefined]

\* C16: requests are handled independently and statelessly: a response is
\* determined by the method and the transport outcome of its own request, a
\* step of one invocation leaves every other invocation as it was, whatever
\* the other requests did a request can still be taken up and its send can
\* still succeed or fail, and after initialisation the configuration and the
\* transporter never change.
C16_Stateless ==
    /\ [](\A r \in DOMAIN handlers :
            /\ \A i \in DOMAIN handlers[r].res :
                 LET want == Expected(requests[r].method, handlers[r].outcome)
                 IN /\ handlers[r].res[i].status = want.status
                    /\ Body(handlers[r].res[i]) = Only(want.message)
            /\ (handlers[r].pc = "pending" /\ moduleState = "loaded") =>
                 ENABLED handler(r, "promise")
            /\ handlers[r].pc = "awaitSendMail" =>
                 /\ ENABLED sendMailResolves(r)
                 /\ \A err \in TransportErrors : ENABLED sendMailRejects(r, err))
    /\ [][/\ env' = env
          /\ moduleState # "unloaded" =>
                UNCHANGED <<moduleState, initError, transporter>>
          /\ SubSeq(requests', 1, Len(requests)) = requests
          /\ \A r1, r2 \in DOMAIN handlers :
                (r1 # r2 /\ handlers'[r1] # handlers[r1]) =>
                    handlers'[r2] = handlers[r2]]_vars

C16_Witness ==
    \E r1, r2 \in DOMAIN handlers :
        /\ r1 < r2
        /\ handlers[r1].outcome \in TransportErrors
        /\ handlers[r1].pc = "returned"
        /\ handlers[r2].outcome = "ok"
        /\ requests[r1].body = requests[r2].body
        /\ transporter = createTransport

\* C17: there is no timeout: while the sendMail call of an invocation has not
\* settled the handler has sent no response, and with a single submission the
\* status is 'Sending...' for as long as its response has not been processed.
C17_NoTimeout ==
    /\ \A r \in DOMAIN handlers :
          handlers[r].pc = "awaitSendMail" =>
              handlers[r].res = <<>> /\ handlers[r].outcome = "none"
    /\ (Len(submissions) = 1 /\ submissions[1].pc # "done") =>
          status = "Sending..."

C17_Witness ==
    /\ Len(submissions) = 1
    /\ submissions[1].pc = "awaitFetch"
    /\ handlers[submissions[1].req].pc = "awaitSendMail"
    /\ status = "Sending..."
    /\ email = "bob"

\* submission s has completed: its response was sent and processed, the form
\* has left 'Sending...' and both fields are cleared
Completed(s) ==
    /\ s \in DOMAIN submissions
    /\ submissions[s].pc = "done"
    /\ handlers[submissions[s].req].res # <<>>
    /\ status # "Sending..."
    /\ email = ""
    /\ message = ""

\* C18 as stated: when every sendMail call settles and every response is
\* delivered, every submission eventually completes: no submission stays
\* pending for ever, and a submission stops being pending only by completing.
C18_EverySubmissionCompletes ==
    /\ \A s \in 1..MaxSubmits :
          []<>(~(s \in DOMAIN submissions /\ Pending(s)))
    /\ [][\A s \in DOMAIN submissions :
            (Pending(s) /\ ~Pending(s)') => Completed(s)']_vars

\* C18: when the three configuration values are present, every sendMail call
\* settles and every response is delivered, every submission eventually
\* completes: no submission stays pending for ever, and a submission stops
\* being pending only when the handler has sent its response and the form has
\* left 'Sending...' with both fields cleared.
C18_ConfiguredSubmissionCompletes ==
    /\ \A s \in 1..MaxSubmits :
          []<>(MissingVariable = Undefined =>
                  ~(s \in DOMAIN submissions /\ Pending(s)))
    /\ [][\A s \in DOMAIN submissions :
            (MissingVariable = Undefined /\ Pending(s) /\ ~Pending(s)')
                => Completed(s)']_vars

C18_Witness ==
    /\ MissingVariable = Undefined
    /\ Len(submissions) = 2
    /\ submissions[1].pc = "awaitFetch"
    /\ Completed(2)

\* C19: in every state of the form, status is the idle empty string,
\* 'Sending...', the success text of the endpoint or an error text of the
\* endpoint.
C19_StatusValues ==
    status \in {"", "Sending...", "Message sent successfully!",
                "Failed to send message.", "Method not allowed"}

C19_Witness ==
    /\ status = "Message sent successfully!"
    /\ \E s1, s2 \in DOMAIN submissions :
          /\ submissions[s1].pc = "done"
          /\ Response(s1).status = 500
          /\ submissions[s2].pc = "done"
          /\ Response(s2).status = 200

\* C20: handleSubmit validates nothing: whenever the browser lets the submit
\* through, with whatever values, handleSubmit runs, and every submission has
\* issued its request with the values as they were.
C20_NoClientValidation ==
    /\ (BrowserAllowsSubmit /\ Len(submissions) < MaxSubmits) => ENABLED handleSubmit
    /\ \A s \in DOMAIN submissions :
          /\ submissions[s].req \in DOMAIN requests
          /\ Positions(s, "fetch") # {}
          /\ Sent(submissions[s].req, "email") \in {"a@b.com", "a@b"}
          /\ Sent(submissions[s].req, "message") = "hello"

C20_Witness ==
    \E s \in DOMAIN submissions :
        /\ Sent(submissions[s].req, "email") = "a@b"
        /\ Sent(submissions[s].req, "message") = "hello"
        /\ Len(handlers[submissions[s].req].mail) = 1

\* C21: handleSubmit leaves email and message as they are at the submit and
\* while it waits: a step of a submission changes the fields only when it
\* processes the response.
C21_FieldsKeptUntilResponse ==
    [][(submissions' # submissions
          /\ ~ \E s \in DOMAIN submissions : ResolveStep(s))
         => (email' = email /\ message' = message)]_vars

C21_Witness ==
    /\ Len(submissions) = 1
    /\ submissions[1].pc = "awaitJson"
    /\ email = "a@b"
    /\ Sent(submissions[1].req, "email") = "a@b"
    /\ message = "hello"

\* the step ends submission s with an exception
AbortStep(s) == Pending(s) /\ submissions'[s].pc = "threw"

\* C22: when fetch rejects or the response body cannot be parsed, handleSubmit
\* ends without updating anything: the step changes neither status nor the
\* fields, the aborted submission does nothing afterwards, and with a single
\* submission status stays 'Sending...'.
C22_AbortUpdatesNothing ==
    /\ []((Len(submissions) = 1 /\ submissions[1].pc = "threw") =>
             status = "Sending...")
    /\ [][\A s \in DOMAIN submissions :
            /\ AbortStep(s) =>
                 /\ status' = status
                 /\ email' = email
                 /\ message' = message
                 /\ submissions'[s].effects = submissions[s].effects
            /\ submissions[s].pc = "threw" => submissions'[s] = submissions[s]]_vars

C22_Witness ==
    /\ Len(submissions) = 1
    /\ submissions[1].pc = "threw"
    /\ handlers[submissions[1].req].res # <<>>
    /\ status = "Sending..."
    /\ email = "a@b.com"
    /\ message = "hello"

\* the fields no longer hold what submission s sent
Retyped(s) ==
    \/ email # Sent(submissions[s].req, "email")
    \/ message # Sent(submissions[s].req, "message")

\* C23: text typed while a submission is pending is discarded when that
\* submission's response is processed: the step empties both fields also when
\* they no longer hold the submitted values, and also while another submission
\* is still pending.
C23_TypedTextDiscarded ==
    [][\A s \in DOMAIN submissions :
          (/\ ResolveStep(s)
           /\ \/ Retyped(s)
              \/ \E t \in DOMAIN submissions : t # s /\ Pending(t))
          => /\ email' = ""
             /\ message' = ""
             /\ \A t \in DOMAIN submissions :
                   t # s => submissions'[t] = submissions[t]]_vars

C23_Witness ==
    /\ Len(submissions) = 2
    /\ submissions[1].pc = "done"
    /\ Pending(2)
    /\ Sent(submissions[2].req, "email") # Sent(submissions[1].req, "email")
    /\ email = ""
    /\ message = ""

\* the texts with which the endpoint answers a POST
ResultTexts ==
    {Prop(Body(SuccessResponse), "message")}
    \cup {Prop(Body(FailureResponse(err)), "message") : err \in TransportErrors}

\* C24: with overlapping submissions status is no in-flight indicator:
\* processing a response shows its result text whatever the other submissions
\* are doing, so the text is shown while requests still pending stay pending,
\* and the response to an earlier submission replaces the result of a later
\* one that completed before it.
C24_StatusNoInFlightIndicator ==
    [][\A s \in DOMAIN submissions :
          ResolveStep(s) =>
             /\ status' \in ResultTexts
             /\ status' = Prop(Body(Response(s)), "message")
             /\ \A t \in DOMAIN submissions :
                   (t # s /\ Pending(t)) => (Pending(t))'
             /\ \A t \in DOMAIN submissions :
                   (t > s /\ submissions[t].pc = "done") =>
                      submissions'[t] = submissions[t]]_vars

C24_Witness ==
    /\ Len(submissions) = 2
    /\ submissions[1].pc = "done"
    /\ Response(1).status = 200
    /\ submissions[2].pc = "done"
    /\ Response(2).status = 500
    /\ status = "Message sent successfully!"

\* C25: every request of the form has method POST, so the handler never
\* answers the form with 405 and the form never shows 'Method not allowed'.
C25_NoMethodNotAllowed ==
    /\ status # Prop(Body(MethodNotAllowedResponse), "message")
    /\ \A r \in DOMAIN requests :
          /\ requests[r].origin \in DOMAIN submissions
          /\ MethodIsPost(requests[r].method)
          /\ \A i \in DOMAIN handlers[r].res :
                /\ handlers[r].res[i].status # 405
                /\ handlers[r].res[i] # MethodNotAllowedResponse

C25_Witness ==
    \E s \in DOMAIN submissions :
        /\ submissions[s].pc = "done"
        /\ requests[submissions[s].req].method = "POST"
        /\ handlers[submissions[s].req].mail # <<>>
        /\ Response(s).status = 500
        /\ status = "Failed to send message."

\* {status && <p>...{status}</p>}
StatusLineVisible == status # ""

\* C26: once a first submission has been made status never returns to the
\* empty value: it is 'Sending...' or the message of a response, a step never
\* empties it, and the status line stays visible.
C26_StatusStaysSet ==
    /\ [](Len(submissions) > 0 =>
             /\ status \in {"Sending..."} \cup ResultTexts
             /\ StatusLineVisible)
    /\ [](Len(submissions) = 0 => ~ StatusLineVisible)
    /\ [][StatusLineVisible => StatusLineVisible']_vars

C26_Witness ==
    /\ Len(submissions) = 2
    /\ submissions[1].pc = "done"
    /\ submissions[2].pc = "threw"
    /\ StatusLineVisible
    /\ email = ""

\* ------------------------------------------------------- the Portfolio page
Versions == {"earlier", "current"}

\* e.key of the key presses tried
Keys == {"Escape", "Enter", "Esc"}

\* the filter buttons, in the order in which they are rendered
FilterButtons ==
    IF page = "earlier" THEN <<"All", "Java", "Python", "React", "Node.js">>
    ELSE <<"All", "Java", "Python", "React">>

\* the projects (title and tags; the other fields are only displayed)
allProjects ==
    IF page = "earlier"
    THEN << [title |-> "Portfolio Website",
             tags |-> <<"React", "Tailwind CSS", "Framer Motion">>],
            [title |-> "Robotics Simulation",
             tags |-> <<"Python", "OpenCV", "YOLO">>],
            [title |-> "Task Manager App",
             tags |-> <<"React", "Firebase", "Redux", "Material UI">>],
            [title |-> "Student Management System", tags |-> <<"Java">>],
            [title |-> "API Server", tags |-> <<"Node.js">>] >>
    ELSE << [title |-> "Portfolio Website",
             tags |-> <<"React", "Tailwind CSS", "Framer Motion">>],
            [title |-> "Air Movies",
             tags |-> <<"Python", "React", "Tailwind CSS", "MySQL">>],
            [title |-> "InchWorm", tags |-> <<"Java", "OpenCV">>],
            [title |-> "FTCScouter", tags |-> <<"Python">>],
            [title |-> "Nutrition Tracker", tags |-> <<"Java">>] >>

\* Array.prototype.includes
includes(array, x) == \E i \in DOMAIN array : array[i] = x

\* a variant that files each project under its first tag only
filteredProjects_FirstTag ==
    IF selectedFilter = "All" THEN allProjects
    ELSE LET Tagged(project) == project.tags[1] = selectedFilter
         IN SelectSeq(allProjects, Tagged)

filteredProjects ==
    IF selectedFilter = "All" THEN allProjects
    ELSE LET Tagged(project) == includes(project.tags, selectedFilter)
         IN SelectSeq(allProjects, Tagged)

\* the cards of the experience timeline (title and org; the other fields are
\* copied along and only displayed)
ExperienceCards ==
    << [title |-> "Robot Engineering Intern", org |-> "Brains4Drones"],
       [title |-> "Financial Analyst", org |-> "DC Partners Capital"],
       [title |-> "Software Engineering Intern", org |-> "Data Annotation"] >>

\* the cards of the leadership section
LeadershipCards ==
    << [title |-> "Residence Hall Senator", org |-> "ISU Student Government"],
       [title |-> "Founder & President", org |-> "VEX U Cyber Robotics Club"],
       [title |-> "VP of Finance", org |-> "Engineering Student Council"],
       [title |-> "Vice President", org |-> "Friley Hall Senate"] >>

Cards(section) == IF section = "experience" THEN ExperienceCards ELSE LeadershipCards

\* { ...job, index: idx }
WithIndex(card, idx) == [title |-> card.title, org |-> card.org, index |-> idx]

\* what the page has received: a click or a key press
Event(type, where, index) == [type |-> type, where |-> where, index |-> index]

Received(event) ==
    /\ Len(events) < MaxEvents
    /\ events' = Append(events, event)

\* onClick of the filter button at position idx (0-based, as in map)
onClickFilter(idx) ==
    /\ idx + 1 \in DOMAIN FilterButtons
    /\ Received(Event("click", "filter", idx))
    /\ selectedFilter' = FilterButtons[idx + 1]
    /\ UNCHANGED <<serverVars, requests, handlers, formVars, page, selectedActivity>>

\* onClick of the card at position idx of a section
onClickCard(section, idx) ==
    /\ idx + 1 \in DOMAIN Cards(section)
    /\ Received(Event("click", section, idx))
    /\ selectedActivity' = WithIndex(Cards(section)[idx + 1], idx)
    /\ UNCHANGED <<serverVars, requests, handlers, formVars, page, selectedFilter>>

\* the keydown listener on window
handleEsc(key) ==
    /\ Received(Event("keydown", key, 0))
    /\ selectedActivity' = IF key = "Escape" THEN Null ELSE selectedActivity
    /\ UNCHANGED <<serverVars, requests, handlers, formVars, page, selectedFilter>>

\* The elements of the two modals, by their React keys; "content-exp" and
\* "content" are the boxes inside "modal-exp" and "modal".
ModalElements ==
    {"backdrop-exp", "modal-exp", "content-exp", "backdrop", "modal", "content"}

Root == "#root"

\* the nearest ancestor of an element that has a click handler
Parent(element) ==
    IF element = "content-exp" THEN "modal-exp"
    ELSE IF element = "content" THEN "modal"
    ELSE Root

\* a variant in which the content box has no click handler of its own
OnClick_NoStop(element) ==
    IF element \in {"content-exp", "content"} THEN <<>>
    ELSE << <<"setSelectedActivity", Null>> >>

\* the onClick handlers of the modal elements, as effects
OnClick(element) ==
    IF element \in {"content-exp", "content"} THEN << <<"stopPropagation">> >>
    ELSE << <<"setSelectedActivity", Null>> >>

Stops(effects) == \E i \in DOMAIN effects : effects[i][1] = "stopPropagation"

\* a click bubbles from its target to the root, until a handler stops it
RECURSIVE Bubble(_)
Bubble(element) ==
    IF element = Root THEN <<>>
    ELSE LET effects == OnClick(element)
         IN IF Stops(effects) THEN effects
            ELSE effects \o Bubble(Parent(element))

\* a click on an element of the modals, which are rendered while selectedActivity is set
onClickModal(element) ==
    /\ selectedActivity # Null
    /\ Received(Event("click", element, 0))
    /\ selectedActivity' = After(selectedActivity, "setSelectedActivity", Bubble(element))
    /\ UNCHANGED <<serverVars, requests, handlers, formVars, page, selectedFilter>>

\* the Portfolio component is mounted, in either version
PageInit ==
    /\ env = [EMAIL_USER |-> "set", EMAIL_PASS |-> "set", EMAIL_TO |-> "set"]
    /\ moduleState = "unloaded"
    /\ initError = Undefined
    /\ transporter = NotCreated
    /\ requests = <<>>
    /\ handlers = <<>>
    /\ email = ""
    /\ message = ""
    /\ status = ""
    /\ submissions = <<>>
    /\ page \in Versions
    /\ selectedFilter = "All"
    /\ selectedActivity = Null
    /\ events = <<>>

PageNext ==
    \/ \E idx \in 0..4 : onClickFilter(idx)
    \/ \E section \in {"experience", "leadership"} : \E idx \in 0..3 : onClickCard(section, idx)
    \/ \E key \in Keys : handleEsc(key)
    \/ \E element \in ModalElements : onClickModal(element)

SpecPage == PageInit /\ [][PageNext]_vars

\* ------------------------------------------------------ properties of the page
\* the positions of the projects whose tags contain filter
Matching(filter) ==
    {i \in DOMAIN allProjects :
        \E j \in DOMAIN allProjects[i].tags : allProjects[i].tags[j] = filter}

\* the k-th smallest element of a set of positions
Nth(positions, k) ==
    CHOOSE i \in positions : Cardinality({j \in positions : j < i}) = k - 1

\* C27: the gallery shows all projects in their listed order under 'All', and
\* otherwise exactly the projects whose tags contain the selected filter, in
\* their listed order; the filter is 'All' before any click; every button
\* offered can be clicked, the filter is always one of the buttons, and at
\* least one project is shown.
C27_Gallery ==
    /\ selectedFilter = "All" => filteredProjects = allProjects
    /\ selectedFilter # "All" =>
          /\ Len(filteredProjects) = Cardinality(Matching(selectedFilter))
          /\ \A k \in DOMAIN filteredProjects :
                filteredProjects[k] = allProjects[Nth(Matching(selectedFilter), k)]
    /\ events = <<>> => selectedFilter = "All"
    /\ includes(FilterButtons, selectedFilter)
    /\ filteredProjects # <<>>
    /\ Len(events) < MaxEvents =>
          \A idx \in 0..(Len(FilterButtons) - 1) : ENABLED onClickFilter(idx)

C27_Witness ==
    /\ page = "current"
    /\ selectedFilter = "React"
    /\ events # <<>>
    /\ Len(filteredProjects) = 2
    /\ filteredProjects[1].title = "Portfolio Website"
    /\ filteredProjects[2].title = "Air Movies"

\* the step delivers an event to the page
EventStep == Len(events') = Len(events) + 1

\* C28: selectedActivity is null before any event and is always null or the
\* data of one card; a click on a card sets it to that card's data; Escape and
\* a click on a backdrop or on the area around the modal content reset it to
\* null; a click inside the modal content, any other key and a click on a
\* filter button leave it unchanged.
C28_ModalState ==
    /\ [](events = <<>> => selectedActivity = Null)
    /\ [](\E section \in {"experience", "leadership"} :
             \E i \in DOMAIN Cards(section) :
                selectedActivity \in {Null, WithIndex(Cards(section)[i], i - 1)})
    /\ [][EventStep =>
            LET event == events'[Len(events')]
                closes == \/ event.type = "keydown" /\ event.where = "Escape"
                          \/ event.type = "click" /\
                               event.where \in {"backdrop-exp", "backdrop",
                                                "modal-exp", "modal"}
                opens == event.type = "click" /\
                            event.where \in {"experience", "leadership"}
            IN /\ closes => selectedActivity' = Null
               /\ opens =>
                    /\ selectedActivity' # Null
                    /\ selectedActivity'.index = event.index
                    /\ selectedActivity'.title =
                          Cards(event.where)[event.index + 1].title
                    /\ selectedActivity'.org =
                          Cards(event.where)[event.index + 1].org
               /\ (~ closes /\ ~ opens) => selectedActivity' = selectedActivity]_vars

C28_Witness ==
    /\ Len(events) = 3
    /\ events[1] = Event("click", "leadership", 1)
    /\ events[2] = Event("click", "content", 0)
    /\ events[3] = Event("keydown", "Enter", 0)
    /\ selectedActivity = WithIndex(LeadershipCards[2], 1)

\* the variables module initialisation requires, in the order of its checks
Required == <<"EMAIL_USER", "EMAIL_PASS", "EMAIL_TO">>

\* the positions in Required of the variables that are unset or empty
Unset == {i \in DOMAIN Required : env[Required[i]] \in {Undefined, ""}}

\* C29: module initialisation throws exactly when EMAIL_USER, EMAIL_PASS or
\* EMAIL_TO is unset or empty, its error names the first of them in that
\* order, and when it throws the transporter is not created; otherwise the
\* transporter is created with the account and its password.
C29_InitOrder ==
    /\ moduleState = "unloaded" => (initError = Undefined /\ transporter = NotCreated)
    /\ moduleState = "threw" =>
          /\ Unset # {}
          /\ \E i \in Unset :
                /\ \A j \in Unset : i <= j
                /\ initError = "Missing environment variable: " \o Required[i]
          /\ transporter = NotCreated
    /\ moduleState = "loaded" =>
          /\ Unset = {}
          /\ initError = Undefined
          /\ transporter = [service |-> "gmail",
                            auth |-> [user |-> EMAIL_USER, pass |-> EMAIL_PASS]]

C29_Witness ==
    /\ moduleState = "threw"
    /\ EMAIL_USER = "set"
    /\ EMAIL_PASS = ""
    /\ EMAIL_TO = Undefined
    /\ initError = "Missing environment variable: EMAIL_PASS"
    /\ transporter = NotCreated
====
